---- MODULE Spec2Model ----
(***************************************************************************)
(* cRUST (src/src/lib.rs): a two-oscillator software synthesizer with a   *)
(* noise generator and one ADSR envelope shared by all held notes.         *)
(*                                                                         *)
(* The engine state is the struct Crust.  The operations are the MIDI      *)
(* entry point (note_on / note_off), set_parameter and the render call     *)
(* process.                                                                *)
(*                                                                         *)
(* Numbers.  An f32/f64 value is modelled as an extended rational <<n, d>>:*)
(*   d > 0            the finite value n/d, in lowest terms                *)
(*   <<0, 0>>         NaN                                                  *)
(*   <<1, 0>>, <<-1, 0>>   +infinity, -infinity                            *)
(* with the IEEE-754 rules for division by zero, infinities and NaN.       *)
(* Rounding and the sign of zero are not modelled: `as f32` / `as f64`     *)
(* casts are exact here.                                                   *)
(***************************************************************************)
EXTENDS Integers, Sequences, FiniteSets, TLC

VARIABLES
    time,         \* Crust.time
    oscillators,  \* Crust.oscillators: two records [volume, wave_index, detune]
    notes,        \* Crust.notes: Vec<u8>
    noise,        \* Crust.noise
    envelope,     \* Crust.envelope
    master_vol,   \* Crust.master_vol
    output,       \* the samples written by the last process call, in the order written
    call          \* the last call made by the host

vars == <<time, oscillators, notes, noise, envelope, master_vol, output, call>>

(***************************************************************************)
(* Bounds of the model.                                                    *)
(***************************************************************************)
MaxNotes == 2       \* longest note registry explored
MaxTime == 3        \* total number of frames rendered in one behaviour
MaxSamples == 2     \* most frames in one process call
MaxChannels == 2    \* most channels in one process call
MaxBatch == 2        \* most events in one process_events call
MaxParamSets == 1   \* most parameters away from their defaults at one time

(***************************************************************************)
(* Floating point arithmetic on extended rationals.                        *)
(***************************************************************************)
Abs(i) == IF i < 0 THEN -i ELSE i

Sgn(i) == IF i < 0 THEN -1 ELSE IF i > 0 THEN 1 ELSE 0

RECURSIVE GCD(_, _)
GCD(a, b) == IF b = 0 THEN a ELSE GCD(b, a % b)

Norm(n, d) ==
    IF n = 0 THEN <<0, 1>>
    ELSE LET g == GCD(Abs(n), d) IN <<n \div g, d \div g>>

NaN == <<0, 0>>
PInf == <<1, 0>>
NInf == <<-1, 0>>
Zero == <<0, 1>>
One == <<1, 1>>

IsNaN(x) == x = NaN
IsInf(x) == x[2] = 0 /\ x[1] # 0
IsFinite(x) == x[2] > 0
IsZero(x) == x = Zero

FNeg(x) == <<-x[1], x[2]>>

FMul(x, y) ==
    IF IsNaN(x) \/ IsNaN(y) THEN NaN
    ELSE IF IsInf(x) \/ IsInf(y)
         THEN <<Sgn(x[1]) * Sgn(y[1]), 0>>     \* inf * 0 = NaN
    ELSE IF x[1] = 0 \/ y[1] = 0 THEN Zero
    ELSE LET g1 == GCD(Abs(x[1]), y[2])
             g2 == GCD(Abs(y[1]), x[2])
         IN  <<(x[1] \div g1) * (y[1] \div g2), (x[2] \div g2) * (y[2] \div g1)>>

FDiv(x, y) ==
    IF IsNaN(x) \/ IsNaN(y) THEN NaN
    ELSE IF IsZero(y)
         THEN <<Sgn(x[1]), 0>>                 \* 0/0 = NaN, x/0 = +-inf
    ELSE IF IsInf(y)
         THEN IF IsInf(x) THEN NaN ELSE Zero
    ELSE IF IsInf(x) THEN <<Sgn(x[1]) * Sgn(y[1]), 0>>
    ELSE FMul(x, IF y[1] > 0 THEN <<y[2], y[1]>> ELSE <<-y[2], -y[1]>>)

FAdd(x, y) ==
    IF IsNaN(x) \/ IsNaN(y) THEN NaN
    ELSE IF IsInf(x) /\ IsInf(y)
         THEN IF x = y THEN x ELSE NaN         \* inf - inf = NaN
    ELSE IF IsInf(x) THEN x
    ELSE IF IsInf(y) THEN y
    ELSE LET g == GCD(x[2], y[2])
             l == (x[2] \div g) * y[2]
         IN  Norm(x[1] * (l \div x[2]) + y[1] * (l \div y[2]), l)

FSub(x, y) == FAdd(x, FNeg(y))

\* a/b < c/d for b, d > 0, by whole parts and then by the reciprocals of the
\* fractional parts, so that no product is formed.
RECURSIVE RatLt(_, _, _, _)
RatLt(a, b, c, d) ==
    LET qa == a \div b
        qc == c \div d
        ra == a - qa * b
        rc == c - qc * d
    IN  IF qa # qc THEN qa < qc
        ELSE IF rc = 0 THEN FALSE
        ELSE IF ra = 0 THEN TRUE
        ELSE RatLt(d, rc, b, ra)

\* Comparisons are false as soon as one side is NaN.
FLt(x, y) ==
    IF IsNaN(x) \/ IsNaN(y) THEN FALSE
    ELSE IF x = y THEN FALSE
    ELSE IF x = NInf \/ y = PInf THEN TRUE
    ELSE IF x = PInf \/ y = NInf THEN FALSE
    ELSE RatLt(x[1], x[2], y[1], y[2])

FEq(x, y) == ~IsNaN(x) /\ ~IsNaN(y) /\ x = y
FLe(x, y) == FLt(x, y) \/ FEq(x, y)
FGt(x, y) == FLt(y, x)
FGe(x, y) == FLe(y, x)

FAbs(x) == <<Abs(x[1]), x[2]>>

\* f64::floor of a finite value.
FFloor(x) == IF IsFinite(x) THEN <<x[1] \div x[2], 1>> ELSE x

(***************************************************************************)
(* Constants of the program.                                               *)
(***************************************************************************)
sample_rate == 44100

Rat(n, d) == Norm(n, d)
FromInt(n) == <<n, 1>>

\* Oscillator::default()
DefaultOscillator == [volume |-> Rat(1, 2), wave_index |-> Zero, detune |-> Zero]

\* Envelope::default()
DefaultEnvelope ==
    [attack |-> Rat(5, 100), decay |-> Rat(5, 100), sustain |-> Rat(16, 100),
     release |-> Rat(14, 100), duration |-> Zero, end_time |-> Zero, note_on |-> FALSE]

(***************************************************************************)
(* Inputs explored.                                                        *)
(***************************************************************************)
\* MIDI note numbers sent by the host.  exp2 is exact on whole octaves only,
\* so the notes explored are octaves of note 69 (A, 440 Hz).
Notes == {57, 69}
ThreeNotes == {57, 69, 81}
OneNote == {69}

\* One sample period as a normalised parameter value of a x5 parameter:
\* set_parameter(7, Tiny) makes the attack last exactly one sample.
Tiny == Rat(1, 5 * sample_rate)

\* A stage of half a second (22050 samples), longer than any run explored.
Long == Rat(1, 10)

\* Normalised parameter values sent by the host: for the three stage
\* durations (attack, decay, release) and for the other parameters.
TimeVals == {Zero, Tiny, Long}
LevelVals == {Zero, One}
Vals(index) == IF index \in {7, 8, 10} THEN TimeVals ELSE LevelVals

\* Normalised waveform-select values sent by the host: the three band
\* boundaries, 0 and one value inside a band.
WaveVals == {Zero, Rat(33, 100), Rat(1, 2), Rat(66, 100), One}

\* Parameter indices sent by the host: 0..11 and one on each side.
ParamIndices == -1 .. 12

\* Values of random::<f32>(), uniform in [0, 1).
RandomDraws == {Zero, Rat(3, 4)}

(***************************************************************************)
(* Pitch and waveforms.                                                    *)
(***************************************************************************)
RECURSIVE Pow2(_)
Pow2(k) == IF k = 0 THEN 1 ELSE 2 * Pow2(k - 1)

\* f64::exp2, on whole numbers.
Exp2(x) == IF x[1] >= 0 THEN <<Pow2(x[1]), 1>> ELSE <<1, Pow2(-x[1])>>

midi_note_num_to_freq(midi_note_number, detune) ==
    FSub(FMul(Exp2(FDiv(FSub(FromInt(midi_note_number), FromInt(69)), FromInt(12))),
              FromInt(440)),
         detune)

\* sin(2*PI*p) for p in cycles: exact at the quarter cycles (0, 1, 0, -1) and
\* interpolated linearly between them, which keeps its sign and its zeros.
SinCycles(p) ==
    IF ~IsFinite(p) THEN NaN
    ELSE LET u == FSub(p, FFloor(p))
         IN  IF FLe(u, Rat(1, 4)) THEN FMul(FromInt(4), u)
             ELSE IF FLe(u, Rat(3, 4)) THEN FSub(FromInt(2), FMul(FromInt(4), u))
             ELSE FSub(FMul(FromInt(4), u), FromInt(4))

create_sine_wave(midi_note, volume, t, detune) ==
    FMul(volume, SinCycles(FMul(t, midi_note_num_to_freq(midi_note, detune))))

\* A sawtooth whose offset of 0.5 is taken outside the product with the volume.
create_sawtooth_wave_offset(midi_note, volume, t, detune) ==
    LET p == FMul(t, midi_note_num_to_freq(midi_note, detune))
    IN  FSub(FMul(volume, FSub(p, FFloor(p))), Rat(1, 2))

create_sawtooth_wave(midi_note, volume, t, detune) ==
    LET p == FMul(t, midi_note_num_to_freq(midi_note, detune))
    IN  FMul(volume, FSub(FSub(p, FFloor(p)), Rat(1, 2)))

create_square_wave(midi_note, volume, t, detune) ==
    IF FGe(SinCycles(FMul(t, midi_note_num_to_freq(midi_note, detune))), Zero)
    THEN FMul(volume, Rat(4, 10))
    ELSE FMul(volume, Rat(-4, 10))

create_triangle_wave(midi_note, volume, t, detune) ==
    LET p == FMul(t, midi_note_num_to_freq(midi_note, detune))
    IN  FMul(volume,
             FMul(FSub(FAbs(FSub(FSub(p, FFloor(p)), Rat(1, 2))), Rat(1, 4)),
                  FromInt(4)))

\* A noise sample that is not scaled by the noise amount.
noise_unscaled(dist, r) ==
    FMul(FDiv(FMul(Rat(2, 100), FSub(FMul(r, FromInt(2)), One)), Rat(102, 100)),
         Rat(35, 10))

\* noise(dist), with r the value random::<f32>() returns.
noise_sample(dist, r) ==
    FMul(dist,
         FMul(FDiv(FMul(Rat(2, 100), FSub(FMul(r, FromInt(2)), One)), Rat(102, 100)),
              Rat(35, 10)))

(***************************************************************************)
(* Envelope.                                                               *)
(***************************************************************************)
get_amplitude(env, mv) ==
    IF FLe(env.duration, env.attack)
    THEN FMul(FDiv(env.duration, env.attack), mv)
    ELSE IF FGt(env.duration, env.attack)
            /\ FLe(env.duration, FAdd(env.attack, env.decay))
    THEN FAdd(FMul(FDiv(FSub(env.duration, env.attack), env.decay),
                   FSub(env.sustain, mv)),
              mv)
    ELSE env.sustain

generate_release(env, mv) ==
    LET r0 == Zero
        r1 == IF FLe(env.duration, env.attack)
              THEN FMul(FDiv(env.duration, env.attack), mv)
              ELSE r0
        r2 == IF FGt(env.duration, env.attack)
                 /\ FLe(env.duration, FAdd(env.attack, env.decay))
              THEN FAdd(FMul(FDiv(FSub(env.duration, env.attack), env.decay),
                             FSub(env.sustain, mv)),
                        mv)
              ELSE r1
        release_amplitude ==
              IF FGt(env.duration, FAdd(env.attack, env.decay))
              THEN env.sustain
              ELSE r2
    IN  FAdd(FMul(FDiv(env.end_time, env.release), FSub(Zero, release_amplitude)),
             release_amplitude)

\* The divisors of the divisions one amplitude query evaluates.
Divisors(env) ==
    LET ads == IF FLe(env.duration, env.attack) THEN {env.attack} ELSE {}
        dec == IF FGt(env.duration, env.attack)
                  /\ FLe(env.duration, FAdd(env.attack, env.decay))
               THEN {env.decay} ELSE {}
    IN  IF env.note_on
        THEN (IF ads # {} THEN ads ELSE dec)
        ELSE ads \cup dec \cup {env.release}

(***************************************************************************)
(* The state after construction: Crust::default().                         *)
(***************************************************************************)
\* The last call: its name; for a MIDI event its status and data bytes (x, y),
\* the gate and the release timer it found and the number of registry entries
\* it removed; for a render call its frames and channels (x, y); for a batch
\* of events their number (x) and, in one more field, the events.
Call(op, x, y, gate, timer, removed) ==
    [op |-> op, x |-> x, y |-> y, gate |-> gate, timer |-> timer, removed |-> removed]

Init ==
    /\ time = Zero
    /\ oscillators = <<DefaultOscillator, DefaultOscillator>>
    /\ notes = <<>>
    /\ noise = Zero
    /\ envelope = DefaultEnvelope
    /\ master_vol = One
    /\ output = <<>>
    /\ call = Call("default", 0, 0, FALSE, Zero, 0)

(***************************************************************************)
(* MIDI events.                                                            *)
(***************************************************************************)
\* A removal of the first occurrence only.
RECURSIVE RemoveFirst(_, _)
RemoveFirst(s, note) ==
    IF s = <<>> THEN <<>>
    ELSE IF Head(s) = note THEN Tail(s)
    ELSE <<Head(s)>> \o RemoveFirst(Tail(s), note)

\* Vec::retain(|&x| x != note)
Retain(s, note) == SelectSeq(s, LAMBDA x : x # note)

\* A note_on that leaves the phase timer running.
note_on_no_restart(note) ==
    /\ notes' = Append(notes, note)
    /\ envelope' = [envelope EXCEPT !.note_on = TRUE]

note_on(note) ==
    /\ notes' = Append(notes, note)
    /\ envelope' = [envelope EXCEPT !.note_on = TRUE, !.duration = Zero]

\* A note_off that leaves the envelope alone when the note is not held.
note_off_if_held(note) ==
    /\ notes' = Retain(notes, note)
    /\ envelope' = IF \E i \in DOMAIN notes : notes[i] = note
                   THEN [envelope EXCEPT !.note_on = FALSE, !.end_time = Zero]
                   ELSE envelope

\* A note_off that resets the release timer only when it closes an open gate.
note_off_on_transition(note) ==
    /\ notes' = Retain(notes, note)
    /\ envelope' = IF envelope.note_on
                   THEN [envelope EXCEPT !.note_on = FALSE, !.end_time = Zero]
                   ELSE envelope

\* A note_off that closes the gate only when it empties the registry.
note_off_when_empty(note) ==
    /\ notes' = Retain(notes, note)
    /\ envelope' = IF Retain(notes, note) = <<>>
                   THEN [envelope EXCEPT !.note_on = FALSE, !.end_time = Zero]
                   ELSE envelope

note_off(note) ==
    /\ notes' = Retain(notes, note)
    /\ envelope' = [envelope EXCEPT !.note_on = FALSE, !.end_time = Zero]

process_midi_data(midi_data) ==
    /\ CASE midi_data[1] = 128 -> note_off(midi_data[2])
         [] midi_data[1] = 144 -> note_on(midi_data[2])
         [] OTHER -> UNCHANGED <<notes, envelope>>
    /\ UNCHANGED <<time, oscillators, noise, master_vol>>
    /\ output' = <<>>
    /\ call' = Call("midi", midi_data[1], midi_data[2],
                    envelope.note_on, envelope.end_time,
                    IF Len(notes') < Len(notes) THEN Len(notes) - Len(notes') ELSE 0)

\* process_midi_data as a value: the registry and the envelope it leaves,
\* given the registry and the envelope st it finds.
midi_data_applied(st, midi_data) ==
    CASE midi_data[1] = 128 ->
             [notes |-> Retain(st.notes, midi_data[2]),
              envelope |-> [st.envelope EXCEPT !.note_on = FALSE, !.end_time = Zero]]
      [] midi_data[1] = 144 ->
             [notes |-> Append(st.notes, midi_data[2]),
              envelope |-> [st.envelope EXCEPT !.note_on = TRUE, !.duration = Zero]]
      [] OTHER -> st

\* An event of the host: Event::Midi with its three data bytes, or an event
\* of another kind (Event::SysEx).
MidiEvent(status, note, velocity) == [kind |-> "Midi", data |-> <<status, note, velocity>>]
SysExEvent == [kind |-> "SysEx", data |-> <<0, 0, 0>>]

\* A loop over the events from the last one to the first.
RECURSIVE EventsLoopReversed(_, _, _)
EventsLoopReversed(st, events, i) ==
    IF i > Len(events) THEN st
    ELSE LET e == events[Len(events) + 1 - i]
         IN  EventsLoopReversed(IF e.kind = "Midi"
                                THEN midi_data_applied(st, e.data)
                                ELSE st,
                                events, i + 1)

\* for event in events.events(): events i .. Len(events), in their order.
RECURSIVE EventsLoop(_, _, _)
EventsLoop(st, events, i) ==
    IF i > Len(events) THEN st
    ELSE EventsLoop(IF events[i].kind = "Midi"
                    THEN midi_data_applied(st, events[i].data)
                    ELSE st,
                    events, i + 1)

process_events(events) ==
    LET st == EventsLoop([notes |-> notes, envelope |-> envelope], events, 1)
    IN  /\ notes' = st.notes
        /\ envelope' = st.envelope
        /\ UNCHANGED <<time, oscillators, noise, master_vol>>
        /\ output' = <<>>
        /\ call' = Call("events", Len(events), 0, envelope.note_on, envelope.end_time, 0)
                        @@ [events |-> events]

(***************************************************************************)
(* Parameters.                                                             *)
(***************************************************************************)
get_parameter(index) ==
    CASE index = 0 -> oscillators[1].wave_index
      [] index = 1 -> oscillators[1].volume
      [] index = 2 -> oscillators[1].detune
      [] index = 3 -> oscillators[2].wave_index
      [] index = 4 -> oscillators[2].volume
      [] index = 5 -> oscillators[2].detune
      [] index = 6 -> noise
      [] index = 7 -> envelope.attack
      [] index = 8 -> envelope.decay
      [] index = 9 -> envelope.sustain
      [] index = 10 -> envelope.release
      [] index = 11 -> master_vol
      [] OTHER -> Zero

\* A set_parameter whose arm for index 3 writes oscillator 1, as the arm for
\* index 3 of get_parameter_text reads it.
set_parameter_first_oscillator(index, val) ==
    /\ oscillators' =
         CASE index = 0 -> [oscillators EXCEPT ![1].wave_index = val]
           [] index = 1 -> [oscillators EXCEPT ![1].volume = val]
           [] index = 2 -> [oscillators EXCEPT ![1].detune = FMul(val, FromInt(10))]
           [] index = 3 -> [oscillators EXCEPT ![1].wave_index = val]
           [] index = 4 -> [oscillators EXCEPT ![2].volume = val]
           [] index = 5 -> [oscillators EXCEPT ![2].detune = FMul(val, FromInt(10))]
           [] OTHER -> oscillators
    /\ noise' = IF index = 6 THEN val ELSE noise
    /\ envelope' =
         CASE index = 7 -> [envelope EXCEPT !.attack = FMul(val, FromInt(5))]
           [] index = 8 -> [envelope EXCEPT !.decay = FMul(val, FromInt(5))]
           [] index = 9 -> [envelope EXCEPT !.sustain = val]
           [] index = 10 -> [envelope EXCEPT !.release = FMul(val, FromInt(5))]
           [] OTHER -> envelope
    /\ master_vol' = IF index = 11 THEN val ELSE master_vol
    /\ UNCHANGED <<time, notes>>
    /\ output' = <<>>
    /\ call' = Call("set_parameter", 0, 0, FALSE, Zero, 0)

set_parameter(index, val) ==
    /\ oscillators' =
         CASE index = 0 -> [oscillators EXCEPT ![1].wave_index = val]
           [] index = 1 -> [oscillators EXCEPT ![1].volume = val]
           [] index = 2 -> [oscillators EXCEPT ![1].detune = FMul(val, FromInt(10))]
           [] index = 3 -> [oscillators EXCEPT ![2].wave_index = val]
           [] index = 4 -> [oscillators EXCEPT ![2].volume = val]
           [] index = 5 -> [oscillators EXCEPT ![2].detune = FMul(val, FromInt(10))]
           [] OTHER -> oscillators
    /\ noise' = IF index = 6 THEN val ELSE noise
    /\ envelope' =
         CASE index = 7 -> [envelope EXCEPT !.attack = FMul(val, FromInt(5))]
           [] index = 8 -> [envelope EXCEPT !.decay = FMul(val, FromInt(5))]
           [] index = 9 -> [envelope EXCEPT !.sustain = val]
           [] index = 10 -> [envelope EXCEPT !.release = FMul(val, FromInt(5))]
           [] OTHER -> envelope
    /\ master_vol' = IF index = 11 THEN val ELSE master_vol
    /\ UNCHANGED <<time, notes>>
    /\ output' = <<>>
    /\ call' = Call("set_parameter", 0, 0, FALSE, Zero, 0)

(***************************************************************************)
(* Rendering.                                                              *)
(***************************************************************************)
\* A waveform select whose boundary values 0.33, 0.66 and 1.0 belong to the
\* lower band.
AddWaveLowerBand(osc, note, t, wave) ==
    IF FGe(osc.wave_index, Zero) /\ FLe(osc.wave_index, Rat(33, 100))
    THEN FAdd(wave, create_sine_wave(note, osc.volume, t, osc.detune))
    ELSE IF FGt(osc.wave_index, Rat(33, 100)) /\ FLe(osc.wave_index, Rat(66, 100))
    THEN FAdd(wave, create_sawtooth_wave(note, osc.volume, t, osc.detune))
    ELSE IF FGt(osc.wave_index, Rat(66, 100)) /\ FLe(osc.wave_index, One)
    THEN FAdd(wave, create_square_wave(note, osc.volume, t, osc.detune))
    ELSE IF FGt(osc.wave_index, One)
    THEN FAdd(wave, create_triangle_wave(note, osc.volume, t, osc.detune))
    ELSE Zero

\* One note's contribution to one oscillator's running sum (the if-chain on
\* wave_index inside the notes loop).
AddWave(osc, note, t, wave) ==
    IF FGe(osc.wave_index, Zero) /\ FLt(osc.wave_index, Rat(33, 100))
    THEN FAdd(wave, create_sine_wave(note, osc.volume, t, osc.detune))
    ELSE IF FGe(osc.wave_index, Rat(33, 100)) /\ FLt(osc.wave_index, Rat(66, 100))
    THEN FAdd(wave, create_sawtooth_wave(note, osc.volume, t, osc.detune))
    ELSE IF FGe(osc.wave_index, Rat(66, 100)) /\ FLt(osc.wave_index, One)
    THEN FAdd(wave, create_square_wave(note, osc.volume, t, osc.detune))
    ELSE IF FGe(osc.wave_index, One)
    THEN FAdd(wave, create_triangle_wave(note, osc.volume, t, osc.detune))
    ELSE Zero

\* A notes loop that keeps the most recent note only.
NotesLoopLast(osc, ns, i, t, wave) ==
    IF ns = <<>> THEN wave ELSE AddWave(osc, ns[Len(ns)], t, wave)

\* for i in 0..self.notes.len(), for one oscillator
RECURSIVE NotesLoop(_, _, _, _, _)
NotesLoop(osc, ns, i, t, wave) ==
    IF i > Len(ns) THEN wave
    ELSE NotesLoop(osc, ns, i + 1, t, AddWave(osc, ns[i], t, wave))

\* A product x * y kept as its two factors <<x, y>>: the exact product of an
\* amplitude and a mix does not fit TLC's 32-bit integers.
Times(x, y) == <<x, y>>

\* Whether a product is exactly 0.
TimesIsZero(p) ==
    \/ IsZero(p[1]) /\ IsFinite(p[2])
    \/ IsFinite(p[1]) /\ IsZero(p[2])

\* An output sample floored at a release amplitude of 0.0001 instead of 0.
OutputSampleFloor(note_on_flag, amplitude, mix) ==
    IF note_on_flag THEN Times(amplitude, mix)
    ELSE IF FLt(amplitude, Rat(1, 10000)) THEN Times(Zero, Zero)
    ELSE Times(amplitude, mix)

\* The value written to *output_sample (0.0 is written as 0 * 0).
OutputSample(note_on_flag, amplitude, mix) ==
    IF note_on_flag THEN Times(amplitude, mix)
    ELSE IF FLt(amplitude, Zero) THEN Times(Zero, Zero)
    ELSE Times(amplitude, mix)

\* The envelope amplitude the sample loop queries.
Amplitude(env, mv) ==
    IF env.note_on THEN get_amplitude(env, mv) ELSE generate_release(env, mv)

\* The body of the sample loop for one output sample: what it computes and
\* writes, with the state it read.
RenderSample(env, t, r, ch, fr) ==
    LET wave1 == NotesLoop(oscillators[1], notes, 1, t, Zero)
        wave2 == NotesLoop(oscillators[2], notes, 1, t, Zero)
        nz == noise_sample(noise, r)
        amplitude == Amplitude(env, master_vol)
    IN  [channel |-> ch, frame |-> fr, time |-> t,
         note_on |-> env.note_on, duration |-> env.duration, end_time |-> env.end_time,
         wave1 |-> wave1, wave2 |-> wave2, noise |-> nz,
         amplitude |-> amplitude, divisors |-> Divisors(env),
         out |-> OutputSample(env.note_on, amplitude, FAdd(FAdd(wave1, wave2), nz))]

\* A sample loop that keeps the phase timer running during release.
AdvanceBothTimers(env, sample) ==
    IF env.note_on THEN [env EXCEPT !.duration = FAdd(@, sample)]
    ELSE [env EXCEPT !.duration = FAdd(@, sample), !.end_time = FAdd(@, sample)]

\* The timer the sample loop advances after writing a sample.
AdvanceTimer(env, sample) ==
    IF env.note_on THEN [env EXCEPT !.duration = FAdd(@, sample)]
    ELSE [env EXCEPT !.end_time = FAdd(@, sample)]

\* The sample loop of one channel: frames fr .. samples, starting at time t.
RECURSIVE SampleLoop(_, _, _, _, _, _, _, _)
SampleLoop(env, t, fr, samples, ch, draws, sample, written) ==
    IF fr > samples THEN [envelope |-> env, output |-> written]
    ELSE SampleLoop(AdvanceTimer(env, sample), FAdd(t, sample), fr + 1, samples, ch,
                    draws, sample,
                    Append(written, RenderSample(env, t, draws[ch][fr], ch, fr)))

\* The channel loop (buffer.zip()): every channel starts again at self.time.
RECURSIVE ChannelLoop(_, _, _, _, _, _, _)
ChannelLoop(env, ch, channels, samples, draws, sample, written) ==
    IF ch > channels THEN [envelope |-> env, output |-> written]
    ELSE LET r == SampleLoop(env, time, 1, samples, ch, draws, sample, written)
         IN  ChannelLoop(r.envelope, ch + 1, channels, samples, draws, sample, r.output)

\* A render call that restarts the time cursor at every buffer.
process_restart(samples, channels, draws) ==
    LET sample == FDiv(One, FromInt(sample_rate))
        r == ChannelLoop(envelope, 1, channels, samples, draws, sample, <<>>)
    IN  /\ envelope' = r.envelope
        /\ output' = r.output
        /\ time' = FMul(FromInt(samples), sample)
        /\ UNCHANGED <<oscillators, notes, noise, master_vol>>
        /\ call' = Call("process", samples, channels, FALSE, Zero, 0)

process(samples, channels, draws) ==
    LET sample == FDiv(One, FromInt(sample_rate))
        r == ChannelLoop(envelope, 1, channels, samples, draws, sample, <<>>)
    IN  /\ envelope' = r.envelope
        /\ output' = r.output
        /\ time' = FAdd(time, FMul(FromInt(samples), sample))
        /\ UNCHANGED <<oscillators, notes, noise, master_vol>>
        /\ call' = Call("process", samples, channels, FALSE, Zero, 0)

(***************************************************************************)
(* The host: the calls it makes, over given sets of inputs.                *)
(***************************************************************************)
\* Frames rendered so far: time * sample_rate.
Frames == FMul(time, FromInt(sample_rate))

\* The parameters after Crust::default(), by index + 1.
DefaultParams ==
    <<DefaultOscillator.wave_index, DefaultOscillator.volume, DefaultOscillator.detune,
      DefaultOscillator.wave_index, DefaultOscillator.volume, DefaultOscillator.detune,
      Zero, DefaultEnvelope.attack, DefaultEnvelope.decay, DefaultEnvelope.sustain,
      DefaultEnvelope.release, One>>

\* How many parameters differ from their defaults.
ChangedParams == Cardinality({i \in 0 .. 11 : get_parameter(i) # DefaultParams[i + 1]})

\* The draws of random::<f32>() one process call makes, by channel and frame.
\* With a noise amount of 0 every draw gives the same noise sample (0), so
\* one draw stands for all of them.
Draws(samples, channels) ==
    [1 .. channels -> [1 .. samples -> IF noise = Zero THEN {Zero} ELSE RandomDraws]]

HostNoteOn(ns, len) ==
    \E n \in ns :
        /\ Len(notes) < len
        /\ process_midi_data(<<144, n, 100>>)

HostNoteOff(ns) == \E n \in ns : process_midi_data(<<128, n, 0>>)

HostOther == process_midi_data(<<176, 7, 100>>)

HostSetParameter(indices, changed) ==
    \E index \in indices, val \in TimeVals \cup LevelVals :
        /\ val \in Vals(index)
        /\ set_parameter(index, val)
        /\ ChangedParams' <= changed

\* set_parameter for the waveform selects.
HostSetWave(indices, changed) ==
    \E index \in indices, val \in WaveVals :
        /\ set_parameter(index, val)
        /\ ChangedParams' <= changed

\* The events the host delivers: note-on and note-off on channel 1 (status
\* 144, 128), a note-on on channel 2 (145), a note-off on channel 2 (129), a
\* control change (176) and an event that is not MIDI.
HostEvents(ns) ==
    {MidiEvent(144, n, 100) : n \in ns} \cup {MidiEvent(128, n, 0) : n \in ns}
    \cup {MidiEvent(145, n, 100) : n \in ns} \cup {MidiEvent(129, n, 0) : n \in ns}
    \cup {MidiEvent(176, 7, 100), SysExEvent}

\* The batches of at most len of these events.
Batches(ns, len) == UNION {[1 .. k -> HostEvents(ns)] : k \in 0 .. len}

HostProcessEvents(ns, len) ==
    \E events \in Batches(ns, len) :
        /\ process_events(events)
        /\ Len(notes') <= MaxNotes

HostProcess(maxSamples, maxChannels) ==
    \E samples \in 1 .. maxSamples, channels \in 1 .. maxChannels :
        /\ FLe(FAdd(Frames, FromInt(samples)), FromInt(MaxTime))
        /\ \E draws \in Draws(samples, channels) : process(samples, channels, draws)

(***************************************************************************)
(* The engine under a host that plays one key and moves at most            *)
(* MaxParamSets parameters away from their defaults.                       *)
(***************************************************************************)
MidiNoteOn == HostNoteOn(OneNote, MaxNotes)
MidiNoteOff == HostNoteOff(OneNote)
MidiOther == HostOther
SetParameter == HostSetParameter(ParamIndices, MaxParamSets)
Process == HostProcess(MaxSamples, MaxChannels)

Next == MidiNoteOn \/ MidiNoteOff \/ MidiOther \/ SetParameter \/ Process

Spec == Init /\ [][Next]_vars

(***************************************************************************)
(* The engine under a host that plays three different notes and renders    *)
(* one frame at a time with the default parameters.                        *)
(***************************************************************************)
RegistryNoteOn == HostNoteOn(ThreeNotes, MaxNotes + 1)
RegistryNoteOff == HostNoteOff(ThreeNotes)
RegistryProcess == HostProcess(1, 1)

NextRegistry == RegistryNoteOn \/ RegistryNoteOff \/ RegistryProcess

SpecRegistry == Init /\ [][NextRegistry]_vars

(***************************************************************************)
(* The engine under a host that sets the attack and the release freely.    *)
(***************************************************************************)
EnvelopeNoteOn == HostNoteOn(Notes, MaxNotes)
EnvelopeNoteOff == HostNoteOff(Notes)
EnvelopeSetParameter == HostSetParameter({7, 10}, 12)
EnvelopeProcess == HostProcess(MaxSamples, MaxChannels)

NextEnvelope ==
    EnvelopeNoteOn \/ EnvelopeNoteOff \/ EnvelopeSetParameter \/ EnvelopeProcess

SpecEnvelope == Init /\ [][NextEnvelope]_vars

(***************************************************************************)
(* The engine under a host that sets the noise amount, the volume of       *)
(* oscillator 1 and the master volume freely.                              *)
(***************************************************************************)
NoiseNoteOn == HostNoteOn(OneNote, MaxNotes)
NoiseNoteOff == HostNoteOff(OneNote)
NoiseSetParameter == HostSetParameter({1, 6, 11}, 12)
NoiseProcess == HostProcess(MaxSamples, MaxChannels)

NextNoise == NoiseNoteOn \/ NoiseNoteOff \/ NoiseSetParameter \/ NoiseProcess

SpecNoise == Init /\ [][NextNoise]_vars

(***************************************************************************)
(* The engine under a host that plays two notes and sets the waveform      *)
(* select, the volume and the detune of both oscillators, at most          *)
(* MaxParamSets of them away from their defaults at one time.              *)
(***************************************************************************)
MixNoteOn == HostNoteOn(Notes, MaxNotes)
MixNoteOff == HostNoteOff(Notes)
MixSetParameter == HostSetParameter({1, 2, 4, 5}, MaxParamSets)
MixSetWave == HostSetWave({0, 3}, MaxParamSets)
MixProcess == HostProcess(MaxSamples, 1)

NextMix == MixNoteOn \/ MixNoteOff \/ MixSetParameter \/ MixSetWave \/ MixProcess

SpecMix == Init /\ [][NextMix]_vars

(***************************************************************************)
(* The engine under a host that delivers its events in batches of at most  *)
(* MaxBatch and renders one frame at a time.                               *)
(***************************************************************************)
EventsProcessEvents == HostProcessEvents(OneNote, MaxBatch)
EventsProcess == HostProcess(1, 1)

NextEvents == EventsProcessEvents \/ EventsProcess

SpecEvents == Init /\ [][NextEvents]_vars

(***************************************************************************)
(* Properties.                                                             *)
(***************************************************************************)
Range(s) == {s[i] : i \in DOMAIN s}
Count(s, n) == Cardinality({i \in DOMAIN s : s[i] = n})

\* The entries of s other than n, in their order.
RECURSIVE Others(_, _)
Others(s, n) ==
    IF s = <<>> THEN <<>>
    ELSE IF Head(s) = n THEN Others(Tail(s), n)
    ELSE <<Head(s)>> \o Others(Tail(s), n)

\* The step is a note-off event (status byte 128); its note is call'.y.
IsNoteOff(c) == c.op = "midi" /\ c.x = 128
IsNoteOn(c) == c.op = "midi" /\ c.x = 144
IsProcess(c) == c.op = "process"

\* The parameters, by index + 1.
Params == [i \in 1 .. 12 |-> get_parameter(i - 1)]

\* One sample period, 1 / sample_rate.
SamplePeriod == FDiv(One, FromInt(sample_rate))

(* C1, as claimed: a note_off(n) on a registry holding k >= 2 entries equal  *)
(* to n leaves exactly k - 1 of them, the other entries keeping their values *)
(* and order.                                                                *)
C1_RemovesFirstOnly ==
    [][(IsNoteOff(call') /\ Count(notes, call'.y) >= 2)
         => /\ Count(notes', call'.y) = Count(notes, call'.y) - 1
            /\ Others(notes', call'.y) = Others(notes, call'.y)]_vars

(* C1, amended: note_off(n) removes every occurrence of n: afterwards no     *)
(* entry equals n, and the other entries keep their values and order.        *)
C1_RemovesAll ==
    [][IsNoteOff(call')
         => /\ Count(notes', call'.y) = 0
            /\ Others(notes', call'.y) = Others(notes, call'.y)]_vars

\* A note_off has removed two or more entries and left another one.
C1_Witness == IsNoteOff(call) /\ call.removed >= 2 /\ notes # <<>>

(* C2, as claimed: a note_off for a note that is not in the registry changes *)
(* nothing: registry, gate, phase_timer, release_timer and time cursor.      *)
C2_SilentNoOp ==
    [][(IsNoteOff(call') /\ call'.y \notin Range(notes))
         => /\ notes' = notes
            /\ envelope' = envelope
            /\ time' = time]_vars

(* C2, amended: a note_off for a note that is not in the registry leaves the *)
(* registry, phase_timer, the parameters and the time cursor unchanged, but  *)
(* closes the gate and resets release_timer to 0, also while the gate is     *)
(* open for other held notes.                                                *)
C2_AbsentNoteOff ==
    [][(IsNoteOff(call') /\ call'.y \notin Range(notes))
         => /\ notes' = notes
            /\ time' = time
            /\ Params' = Params
            /\ envelope'.duration = envelope.duration
            /\ envelope'.note_on = FALSE
            /\ envelope'.end_time = Zero]_vars

\* A note_off removed nothing, found the gate open and closed it while another
\* note is held.
C2_Witness ==
    /\ IsNoteOff(call) /\ call.removed = 0 /\ call.gate
    /\ notes # <<>> /\ ~envelope.note_on

(* C10, as claimed: release_timer is reset to 0 only by a step that takes    *)
(* the gate from open to closed.                                             *)
C10_ResetOnlyOnTransition ==
    [][(envelope'.end_time = Zero /\ envelope.end_time # Zero)
         => (envelope.note_on /\ ~envelope'.note_on)]_vars

(* C10, amended: release_timer is reset to 0 by note_off only, and by every  *)
(* note_off: one that arrives while the gate is already closed resets it too *)
(* and so restarts the release ramp.                                         *)
C10_ResetByEveryNoteOff ==
    [][/\ IsNoteOff(call') => (envelope'.end_time = Zero /\ ~envelope'.note_on)
       /\ (envelope'.end_time = Zero /\ envelope.end_time # Zero) => IsNoteOff(call')
      ]_vars

\* A note_off found the gate closed and the release timer running, and reset it.
C10_Witness ==
    /\ IsNoteOff(call) /\ ~call.gate /\ FGt(call.timer, Zero)
    /\ envelope.end_time = Zero

(* C3, as claimed: a render call of N frames, whatever its channel count,    *)
(* advances the active timer (phase_timer while gated, release_timer while   *)
(* not) by exactly N sample periods, as it does the time cursor, and leaves  *)
(* the other timer alone.                                                    *)
C3_TimerAdvancesByFrames ==
    [][IsProcess(call')
         => LET total == FMul(FromInt(call'.x), SamplePeriod)
            IN  IF envelope.note_on
                THEN /\ envelope'.duration = FAdd(envelope.duration, total)
                     /\ envelope'.end_time = envelope.end_time
                ELSE /\ envelope'.end_time = FAdd(envelope.end_time, total)
                     /\ envelope'.duration = envelope.duration]_vars

\* The mix of one rendered sample: wave1 + wave2 + noise.
Mix(smp) == FAdd(FAdd(smp.wave1, smp.wave2), smp.noise)

(* C4, as claimed: a sample rendered while not gated whose release amplitude *)
(* is below 0.0001 is written as exactly 0.                                  *)
C4_FloorAtTenThousandth ==
    \A i \in DOMAIN output :
        (~output[i].note_on /\ FLt(output[i].amplitude, Rat(1, 10000)))
            => TimesIsZero(output[i].out)

(* C4, amended: a sample rendered while not gated is written as exactly 0    *)
(* when its release amplitude is negative; a release amplitude that is not   *)
(* negative, however small, is multiplied with the mix.                      *)
C4_FloorAtZero ==
    \A i \in DOMAIN output :
        ~output[i].note_on
            => IF FLt(output[i].amplitude, Zero)
               THEN output[i].out = Times(Zero, Zero)
               ELSE output[i].out = Times(output[i].amplitude, Mix(output[i]))

\* A sample was rendered in release with a negative amplitude and a mix that
\* is not 0: the 0 written is the floor's doing.
C4_Witness ==
    \E i \in DOMAIN output :
        /\ ~output[i].note_on
        /\ IsFinite(output[i].amplitude) /\ FLt(output[i].amplitude, Zero)
        /\ IsFinite(Mix(output[i])) /\ ~IsZero(Mix(output[i]))
        /\ TimesIsZero(output[i].out)

(* C5, as claimed: with attack = 0 the amplitude of the first sample after a *)
(* note-on (phase_timer = 0) equals master_vol.                              *)
C5_ZeroAttackSaturates ==
    \A i \in DOMAIN output :
        (output[i].note_on /\ envelope.attack = Zero /\ output[i].duration = Zero)
            => FEq(output[i].amplitude, master_vol)

(* C6, as claimed: no amplitude query divides by an attack, decay or release *)
(* that is zero.                                                             *)
C6_NoDivisionByZero == \A i \in DOMAIN output : Zero \notin output[i].divisors

(* C7, as claimed: every sample rendered while the registry is empty is      *)
(* exactly 0, whatever the parameters.                                       *)
C7_EmptyRegistryIsSilent ==
    notes = <<>> => \A i \in DOMAIN output : TimesIsZero(output[i].out)

(* C7, amended: a sample rendered while the registry is empty has no         *)
(* oscillator content (both oscillator sums are exactly 0): it is the        *)
(* envelope amplitude times the noise sample alone, or the 0 of the release  *)
(* floor, and the noise sample is exactly 0 when the noise amount is 0.      *)
C7_EmptyRegistryIsNoiseOnly ==
    notes = <<>> =>
        \A i \in DOMAIN output :
            /\ output[i].wave1 = Zero
            /\ output[i].wave2 = Zero
            /\ \/ output[i].out = Times(output[i].amplitude, output[i].noise)
               \/ /\ ~output[i].note_on /\ FLt(output[i].amplitude, Zero)
                  /\ output[i].out = Times(Zero, Zero)
            /\ noise = Zero => output[i].noise = Zero

\* A sample was rendered with an empty registry, a positive amplitude, audible
\* oscillators and no noise: it is 0 because nothing is held.
C7_Witness ==
    /\ notes = <<>> /\ noise = Zero
    /\ oscillators[1].volume # Zero /\ oscillators[2].volume # Zero
    /\ \E i \in DOMAIN output :
           FGt(output[i].amplitude, Zero) /\ TimesIsZero(output[i].out)

(* C8: the time cursor never decreases; a render call of N frames advances   *)
(* it by exactly N sample periods and renders frame k of every channel at    *)
(* the cursor's value before the call plus k - 1 periods, so it continues    *)
(* where the previous call ended; every other call leaves it unchanged.      *)
C8_TimeCursor ==
    [][/\ FLe(time, time')
       /\ IsProcess(call')
            => /\ time' = FAdd(time, FMul(FromInt(call'.x), SamplePeriod))
               /\ Len(output') = call'.x * call'.y
               /\ \A i \in DOMAIN output' :
                      output'[i].time =
                          FAdd(time, FMul(FromInt(output'[i].frame - 1), SamplePeriod))
       /\ ~IsProcess(call') => time' = time]_vars

\* A render call of two frames started where an earlier call had ended.
C8_Witness ==
    /\ IsProcess(call) /\ call.x = 2
    /\ FGt(output[1].time, Zero)
    /\ time = FAdd(output[1].time, FMul(FromInt(2), SamplePeriod))

(* C9, as claimed, for a release with other notes still held: once           *)
(* release_timer exceeds a release > 0, every sample rendered until the next *)
(* note_on is exactly 0.                                                     *)
C9_SilentAfterRelease ==
    \A i \in DOMAIN output :
        (/\ ~output[i].note_on /\ notes # <<>>
         /\ FGt(envelope.release, Zero)
         /\ FGt(output[i].end_time, envelope.release))
            => TimesIsZero(output[i].out)

(* C11: note_on(n) appends n at the end of the registry, the entries held   *)
(* before keeping their values and order, opens the gate and sets            *)
(* phase_timer to 0, whatever the state; it leaves release_timer, the        *)
(* parameters and the time cursor unchanged.                                 *)
C11_NoteOnAppendsAndRestarts ==
    [][IsNoteOn(call')
         => /\ notes' = Append(notes, call'.y)
            /\ envelope'.note_on
            /\ envelope'.duration = Zero
            /\ envelope'.end_time = envelope.end_time
            /\ Params' = Params
            /\ time' = time]_vars

\* A note_on found the gate open, added a second entry for a note already held
\* and kept a release timer that had run.
C11_Witness ==
    /\ IsNoteOn(call) /\ call.gate
    /\ Count(notes, call.y) >= 2 /\ notes[Len(notes)] = call.y
    /\ envelope.note_on /\ envelope.duration = Zero
    /\ FGt(envelope.end_time, Zero)

(* C12: after note_off(n) for a note n that is in the registry the gate is   *)
(* closed and release_timer is 0, whether or not other notes remain held.    *)
C12_NoteOffClosesGate ==
    [][(IsNoteOff(call') /\ call'.y \in Range(notes))
         => (~envelope'.note_on /\ envelope'.end_time = Zero)]_vars

\* A note_off removed a held note while the gate was open and the release
\* timer had run, and another note is still held.
C12_Witness ==
    /\ IsNoteOff(call) /\ call.removed >= 1 /\ call.gate /\ FGt(call.timer, Zero)
    /\ notes # <<>>
    /\ ~envelope.note_on /\ envelope.end_time = Zero

(* C17: phase_timer changes only by advancing in a render call made while    *)
(* gated or by being reset to 0 by note_on: note_off, set_parameter and the  *)
(* frames rendered while not gated leave it as it is.                        *)
C17_PhaseTimerFrozen ==
    [][(envelope'.duration # envelope.duration)
         => \/ IsProcess(call') /\ envelope.note_on
                /\ FGt(envelope'.duration, envelope.duration)
            \/ IsNoteOn(call') /\ envelope'.duration = Zero]_vars

\* A render call of two frames was made in release with a phase timer that
\* had run before the note_off: the release timer ran on, the phase timer
\* stayed where it was.
C17_Witness ==
    /\ IsProcess(call) /\ call.x = 2
    /\ ~envelope.note_on
    /\ FGt(envelope.duration, Zero) /\ FGt(envelope.end_time, Zero)
    /\ \A i \in DOMAIN output : output[i].duration = envelope.duration

(* C16, as claimed: with release > 0, the release amplitude computed at      *)
(* release_timer = 0 equals the amplitude the gated branch returns for the   *)
(* same phase_timer.                                                         *)
C16_ReleaseStartContinuity ==
    \A i \in DOMAIN output :
        (/\ ~output[i].note_on /\ output[i].end_time = Zero
         /\ FGt(envelope.release, Zero))
            => FEq(output[i].amplitude,
                   get_amplitude([envelope EXCEPT !.duration = output[i].duration],
                                 master_vol))

\* The value a parameter holds after it is set to the normalised value val:
\* the detunes are scaled by 10, the three stage durations by 5.
Scaled(index, val) ==
    IF index \in {2, 5} THEN FMul(val, FromInt(10))
    ELSE IF index \in {7, 8, 10} THEN FMul(val, FromInt(5))
    ELSE val

(* C18: a step that is set_parameter(i, v) with 0 <= i <= 11 gives the       *)
(* parameter of index i its new value and leaves every other parameter, the  *)
(* registry, the gate, both timers and the time cursor unchanged; with an    *)
(* index outside 0..11 it changes none of them; get_parameter of an index    *)
(* outside 0..11 is 0.                                                       *)
C18_SetParameterFrame ==
    [][/\ \A index \in ParamIndices :
              \A val \in Vals(index) :
                  set_parameter(index, val)
                      => /\ Params' = IF index \in 0 .. 11
                                      THEN [Params EXCEPT ![index + 1] = Scaled(index, val)]
                                      ELSE Params
                         /\ notes' = notes
                         /\ envelope'.note_on = envelope.note_on
                         /\ envelope'.duration = envelope.duration
                         /\ envelope'.end_time = envelope.end_time
                         /\ time' = time
       /\ \A index \in ParamIndices \ (0 .. 11) : get_parameter(index)' = Zero
      ]_vars

\* A set_parameter was made while a note was held and both timers had run,
\* and one parameter is away from its default.
C18_Witness ==
    /\ call.op = "set_parameter"
    /\ ChangedParams = 1
    /\ notes # <<>>
    /\ FGt(envelope.duration, Zero) /\ FGt(envelope.end_time, Zero)
    /\ FGt(time, Zero)

\* The waveform an oscillator is set to, for one note at time t, with the
\* oscillator's own gain and detune.
SelectedWave(osc, note, t) ==
    LET w == osc.wave_index
    IN  IF FLe(Zero, w) /\ FLt(w, Rat(33, 100))
        THEN create_sine_wave(note, osc.volume, t, osc.detune)
        ELSE IF FLe(Rat(33, 100), w) /\ FLt(w, Rat(66, 100))
        THEN create_sawtooth_wave(note, osc.volume, t, osc.detune)
        ELSE IF FLe(Rat(66, 100), w) /\ FLt(w, One)
        THEN create_square_wave(note, osc.volume, t, osc.detune)
        ELSE create_triangle_wave(note, osc.volume, t, osc.detune)

\* The sum of the selected waveform over every entry of a registry.
RECURSIVE WaveSum(_, _, _)
WaveSum(osc, ns, t) ==
    IF ns = <<>> THEN Zero
    ELSE FAdd(SelectedWave(osc, Head(ns), t), WaveSum(osc, Tail(ns), t))

(* C13: in every rendered frame each oscillator's accumulated value is the   *)
(* sum, over every entry of the registry, duplicates counted one by one, of  *)
(* that oscillator's selected waveform at the frame's time with that         *)
(* oscillator's own gain and detune.                                         *)
C13_PolyphonicMix ==
    \A i \in DOMAIN output :
        /\ output[i].wave1 = WaveSum(oscillators[1], notes, output[i].time)
        /\ output[i].wave2 = WaveSum(oscillators[2], notes, output[i].time)

\* A frame was rendered after time 0 with two entries held and the two
\* oscillators set differently: the two sums differ, and neither is the
\* waveform of the last note alone.
C13_Witness ==
    /\ Len(notes) = 2
    /\ oscillators[1] # oscillators[2]
    /\ \E i \in DOMAIN output :
           /\ FGt(output[i].time, Zero)
           /\ output[i].wave1 # output[i].wave2
           /\ output[i].wave1 # SelectedWave(oscillators[1], notes[2], output[i].time)
           /\ output[i].wave2 # SelectedWave(oscillators[2], notes[2], output[i].time)

\* What one oscillator adds for a registry of one note, by the band of its
\* waveform select.
BandOfOne(osc, note, t, wave) ==
    LET w == osc.wave_index
    IN  /\ (FGe(w, Zero) /\ FLt(w, Rat(33, 100)))
              => wave = create_sine_wave(note, osc.volume, t, osc.detune)
        /\ (FGe(w, Rat(33, 100)) /\ FLt(w, Rat(66, 100)))
              => wave = create_sawtooth_wave(note, osc.volume, t, osc.detune)
        /\ (FGe(w, Rat(66, 100)) /\ FLt(w, One))
              => wave = create_square_wave(note, osc.volume, t, osc.detune)
        /\ FGe(w, One)
              => wave = create_triangle_wave(note, osc.volume, t, osc.detune)

(* C14: with one note held, each oscillator on its own adds the sine for a   *)
(* waveform select in [0, 0.33), the sawtooth in [0.33, 0.66), the square in *)
(* [0.66, 1.0) and the triangle from 1.0 on, the boundary values 0.33, 0.66  *)
(* and 1.0 belonging to the upper band.                                      *)
C14_WaveformBands ==
    Len(notes) = 1 =>
        \A i \in DOMAIN output :
            /\ BandOfOne(oscillators[1], notes[1], output[i].time, output[i].wave1)
            /\ BandOfOne(oscillators[2], notes[1], output[i].time, output[i].wave2)

\* A frame was rendered after time 0 with one note held, one oscillator's
\* waveform select on a band boundary and the other's at 0: the two
\* oscillators added different values.
C14_Witness ==
    /\ Len(notes) = 1
    /\ \E k \in 1 .. 2 :
           /\ oscillators[k].wave_index \in {Rat(33, 100), Rat(66, 100), One}
           /\ oscillators[3 - k].wave_index = Zero
    /\ \E i \in DOMAIN output :
           FGt(output[i].time, Zero) /\ output[i].wave1 # output[i].wave2

\* Detunes the host can set.
DetuneVals == {Scaled(2, val) : val \in LevelVals}

(* C15: each of the four generators returns exactly 0 for a gain of 0, for   *)
(* the notes, the frame times and the detunes explored, and so an oscillator *)
(* whose gain is 0 adds exactly 0 to every rendered frame.                   *)
C15_ZeroGainIsZero ==
    \A i \in DOMAIN output :
        /\ \A n \in ThreeNotes, d \in DetuneVals :
               /\ create_sine_wave(n, Zero, output[i].time, d) = Zero
               /\ create_sawtooth_wave(n, Zero, output[i].time, d) = Zero
               /\ create_square_wave(n, Zero, output[i].time, d) = Zero
               /\ create_triangle_wave(n, Zero, output[i].time, d) = Zero
        /\ oscillators[1].volume = Zero => output[i].wave1 = Zero
        /\ oscillators[2].volume = Zero => output[i].wave2 = Zero

\* A frame was rendered after time 0 with a note held and one oscillator's
\* gain at 0: that oscillator added 0, the other one did not.
C15_Witness ==
    /\ notes # <<>>
    /\ \E i \in DOMAIN output :
           /\ FGt(output[i].time, Zero)
           /\ \/ oscillators[1].volume = Zero /\ output[i].wave1 = Zero
                  /\ output[i].wave2 # Zero
              \/ oscillators[2].volume = Zero /\ output[i].wave2 = Zero
                  /\ output[i].wave1 # Zero

\* The note events of a batch, in delivery order: the MIDI events whose
\* status byte is exactly 144 or 128.
NoteEvents(events) ==
    SelectSeq(events, LAMBDA e : e.kind = "Midi" /\ e.data[1] \in {128, 144})

\* The registry after the note events ms, applied first to last.
RECURSIVE RegistryAfter(_, _)
RegistryAfter(ns, ms) ==
    IF ms = <<>> THEN ns
    ELSE RegistryAfter(IF Head(ms).data[1] = 144
                       THEN ns \o <<Head(ms).data[2]>>
                       ELSE Others(ns, Head(ms).data[2]),
                       Tail(ms))

(* C19: a batch of events changes the engine only through its MIDI events    *)
(* with status byte exactly 144 or 128, applied in delivery order: the       *)
(* registry is what the note_on and note_off of their data byte 1 make of    *)
(* it, first to last, the gate is that of the last of them, phase_timer is 0 *)
(* if one is a note-on, release_timer is 0 if one is a note-off; a batch     *)
(* with no such event leaves registry, gate and timers unchanged, and no     *)
(* batch changes the time cursor or the parameters.                          *)
C19_MidiDispatch ==
    [][call'.op = "events"
         => LET ms == NoteEvents(call'.events)
                statuses == {ms[i].data[1] : i \in DOMAIN ms}
            IN  /\ time' = time
                /\ Params' = Params
                /\ notes' = RegistryAfter(notes, ms)
                /\ envelope'.note_on =
                       IF ms = <<>> THEN envelope.note_on
                       ELSE ms[Len(ms)].data[1] = 144
                /\ envelope'.duration =
                       IF 144 \in statuses THEN Zero ELSE envelope.duration
                /\ envelope'.end_time =
                       IF 128 \in statuses THEN Zero ELSE envelope.end_time]_vars

\* A batch of a note-off followed by a note-on of the same note was applied
\* to a held note while the gate was open and both timers had run: the note
\* is held once, the gate is open and both timers are 0.
C19_Witness ==
    /\ call.op = "events" /\ call.x = 2
    /\ call.events[1].kind = "Midi" /\ call.events[1].data[1] = 128
    /\ call.events[2].kind = "Midi" /\ call.events[2].data[1] = 144
    /\ call.events[1].data[2] = call.events[2].data[2]
    /\ call.gate /\ FGt(call.timer, Zero)
    /\ notes = <<call.events[2].data[2]>>
    /\ envelope.note_on
    /\ envelope.duration = Zero /\ envelope.end_time = Zero
    /\ FGt(time, Zero)

====
